---- MODULE Spec2Model ----
(***************************************************************************)
(* Model of harmony's callback correlation registry                        *)
(* (app/backends/service-response.ts) and of the persisted Record base     *)
(* class (app/models/record.ts).                                           *)
(*                                                                         *)
(* Strings are sequences of symbols.  The symbol "/" is the path           *)
(* separator; every other symbol is a run of characters without a slash    *)
(* ("h", "service", "cb", a uuid).  Concatenation of strings is \o, so     *)
(* "h/service" + "1" is <<"h","/","service","1">>, whose last path segment *)
(* is <<"service","1">> (the text "service1").                             *)
(***************************************************************************)
EXTENDS Integers, Sequences, FiniteSets, TLC

VARIABLES
  config,          \* service-response.ts: config = { baseUrl }
  idsToCallbacks,  \* service-response.ts: Map uuid -> { response: callback }
  uuidCount,       \* number of uuid() calls made so far
  boundUrl,        \* history: uuid -> URL bindResponseUrl returned for it
  invocations,     \* history: uuid -> number of times its callback was called
  accepted,        \* history: the base URL of the last configure call that succeeded
  last,            \* observation of the last registry operation
  rec,             \* record.ts: the Record instance (id, createdAt, updatedAt)
  clock,           \* the wall clock read by new Date()
  rows,            \* the table of the store: id -> row
  everInserted,    \* history: an insert of this instance has succeeded
  lastSave,        \* observation of the last Record.save call
  parseCall,       \* a call of parseVariables: its arguments and its result
  errCall,         \* a call of the EOSS error middleware: err, req, res, next
  granuleCall,     \* a call of the EOSS getGranule operation: req, next
  clientRes        \* the responses written to the clients of dispatched operations

regVars == <<config, idsToCallbacks, uuidCount, boundUrl, invocations, accepted, last>>
recVars == <<rec, clock, rows, everInserted, lastSave>>
extVars == <<parseCall, errCall, granuleCall, clientRes>>
vars == <<config, idsToCallbacks, uuidCount, boundUrl, invocations, accepted, last,
          rec, clock, rows, everInserted, lastSave,
          parseCall, errCall, granuleCall, clientRes>>

-----------------------------------------------------------------------------
(* Bounds *)

\* uuid() is called at most MaxUuid times
MaxUuid == 2
\* callbacks are called at most MaxCalls times in all
MaxCalls == 2
\* the clock runs up to MaxClock
MaxClock == 3
\* parseVariables is given at most MaxCollections collections
MaxCollections == 2
\* the collectionId parameter names at most MaxNames variables
MaxNames == 2

-----------------------------------------------------------------------------
(* Strings and JavaScript values *)

\* JavaScript null / undefined where a string is expected
NULL == <<"null">>

\* JavaScript truthiness of a string-or-null: null, undefined and "" are falsy
Truthy(s) == s # NULL /\ s # <<>>

\* String.prototype.endsWith('/')
EndsWithSlash(s) == Len(s) > 0 /\ s[Len(s)] = "/"

\* String.prototype.split('/'): the segments between slashes, left to right
RECURSIVE SplitFrom(_, _, _)
SplitFrom(s, i, cur) ==
  IF i > Len(s) THEN <<cur>>
  ELSE IF s[i] = "/" THEN <<cur>> \o SplitFrom(s, i + 1, <<>>)
  ELSE SplitFrom(s, i + 1, Append(cur, s[i]))

Split(s) == SplitFrom(s, 1, <<>>)

\* Array.prototype.pop(): the last element
Pop(a) == a[Len(a)]

\* url.match(UUID_REGEX) with UUID_REGEX = /\/service\/(.*)/ : the leftmost
\* occurrence of "/service/" and, as group 1, everything after it.
\* <<>> models a null match, <<g>> a match whose group 1 is g.
UuidRegexMatch(url) ==
  LET hits == {i \in 1..(Len(url) - 2) :
                 url[i] = "/" /\ url[i + 1] = "service" /\ url[i + 2] = "/"}
  IN IF hits = {} THEN <<>>
     ELSE LET i == CHOOSE j \in hits : \A k \in hits : j <= k
          IN <<SubSeq(url, i + 3, Len(url))>>

\* uuid(): the n-th generated uuid; distinct calls give distinct strings
UuidCollides(n) == <<"1">>

Uuid(n) == <<ToString(n)>>

Uuids == {Uuid(n) : n \in 1..MaxUuid}

\* the callback functions given to bindResponseUrl
Handlers == {"cbA", "cbB"}

NoHandler == "none"

-----------------------------------------------------------------------------
(* Inputs *)

\* base URLs given to configure
BaseUrls == { <<"h", "/", "service", "/">>,
              <<"h", "/", "service">>,
              <<"h", "/", "cb", "/">> }

ConfigInputs == BaseUrls \cup {NULL, <<>>}

\* URLs given to unbindResponseUrl and isUrlBound: every URL a bind can have
\* returned, plus null and the empty string
UrlInputs == {b \o u : b \in BaseUrls, u \in Uuids} \cup {NULL, <<>>}

\* req.params.uuid of a callback request
IdInputs == Uuids \cup { <<"service", "1">> }

-----------------------------------------------------------------------------
(* Observations *)

NoOp == [op |-> "none", url |-> NULL, id |-> <<>>, handler |-> NoHandler,
         ret |-> NULL, bool |-> FALSE, error |-> "", called |-> NoHandler]

Observe(op, url, id, handler, ret, bool, error, called) ==
  [op |-> op, url |-> url, id |-> id, handler |-> handler,
   ret |-> ret, bool |-> bool, error |-> error, called |-> called]

-----------------------------------------------------------------------------
(* service-response.ts *)

\* Map.prototype.delete(key)
MapDelete(m, key) == [k \in (DOMAIN m) \ {key} |-> m[k]]

\* Map.prototype.set(key, value)
MapSet(m, key, value) ==
  [k \in (DOMAIN m) \cup {key} |-> IF k = key THEN value ELSE m[k]]

\* the key unbindResponseUrl deletes: url.split('/').pop()
UnbindKey(url) == Pop(Split(url))

\* the table after unbindResponseUrl(url)
UnbindTableClear(m, url) == IF Truthy(url) THEN <<>> ELSE m

UnbindTable(m, url) == IF Truthy(url) THEN MapDelete(m, UnbindKey(url)) ELSE m

unbindResponseUrl(url) ==
  /\ idsToCallbacks' = UnbindTable(idsToCallbacks, url)
  /\ last' = Observe("unbind", url, <<>>, NoHandler, NULL, FALSE, "", NoHandler)
  /\ UNCHANGED <<config, uuidCount, boundUrl, invocations, accepted>>

\* the URL bindResponseUrl returns for a fresh uuid
BindUrl(base, callbackUUID) == base \o callbackUUID

\* the guard of bindResponseUrl: !config.baseUrl
BaseUrlMissingNever == FALSE

BaseUrlMissing == ~Truthy(config.baseUrl)

bindResponseUrl(responseCallback) ==
  IF BaseUrlMissing
  THEN /\ last' = Observe("bind", NULL, <<>>, responseCallback, NULL, FALSE,
                          "Call configure({ baseUrl }) before calling bindResponseUrl",
                          NoHandler)
       /\ UNCHANGED <<config, idsToCallbacks, uuidCount, boundUrl, invocations, accepted>>
  ELSE /\ uuidCount < MaxUuid
       /\ LET callbackUUID == Uuid(uuidCount + 1)
              url == BindUrl(config.baseUrl, callbackUUID)
          IN /\ uuidCount' = uuidCount + 1
             /\ idsToCallbacks' = MapSet(idsToCallbacks, callbackUUID,
                                         [response |-> responseCallback])
             /\ boundUrl' = MapSet(boundUrl, callbackUUID, url)
             /\ invocations' = MapSet(invocations, callbackUUID, 0)
             /\ last' = Observe("bind", NULL, callbackUUID, responseCallback,
                                url, FALSE, "", NoHandler)
       /\ UNCHANGED <<config, accepted>>

\* the value isUrlBound returns, on a table m
IsBoundIn(m, callbackUrl) ==
  LET callbackUUIDMatch == UuidRegexMatch(callbackUrl)
  IN callbackUUIDMatch # <<>> /\ callbackUUIDMatch[1] \in DOMAIN m

isUrlBoundValue(callbackUrl) == IsBoundIn(idsToCallbacks, callbackUrl)

isUrlBound(callbackUrl) ==
  /\ IF callbackUrl = NULL
     THEN last' = Observe("isBound", callbackUrl, <<>>, NoHandler, NULL, FALSE,
                          "TypeError", NoHandler)
     ELSE last' = Observe("isBound", callbackUrl, <<>>, NoHandler, NULL,
                          isUrlBoundValue(callbackUrl), "", NoHandler)
  /\ UNCHANGED <<config, idsToCallbacks, uuidCount, boundUrl, invocations, accepted>>

\* JavaScript undefined, as the result of Map.prototype.get on a missing key
Undefined == [response |-> NoHandler]

\* idsToCallbacks.get(id)
Lookup(id) == IF id \in DOMAIN idsToCallbacks THEN idsToCallbacks[id] ELSE Undefined

\* the guard of responseHandler: idsToCallbacks.get(id) is truthy
HandlerFoundAlways(id) == TRUE

HandlerFound(id) == Lookup(id) # Undefined

\* the table after responseHandler: "Does not clean up the callback"
TableAfterInvokeConsuming(m, id) == MapDelete(m, id)

TableAfterInvoke(m, id) == m

\* callback(req, res): one call of the callback
CountCallTwice(n) == n + 2

CountCall(n) == n + 1

\* the number of callback calls made so far
RECURSIVE SumOver(_, _)
SumOver(f, keys) ==
  IF keys = {} THEN 0
  ELSE LET k == CHOOSE x \in keys : TRUE
       IN f[k] + SumOver(f, keys \ {k})

TotalCalls == SumOver(invocations, DOMAIN invocations)

responseHandler(id) ==
  IF ~HandlerFound(id)
  THEN /\ last' = Observe("invoke", NULL, id, NoHandler, NULL, FALSE,
                          "Could not find response callback for UUID", NoHandler)
       /\ UNCHANGED <<config, idsToCallbacks, uuidCount, boundUrl, invocations, accepted>>
  ELSE IF Lookup(id) = Undefined
  THEN \* idsToCallbacks.get(id).response on undefined
       /\ last' = Observe("invoke", NULL, id, NoHandler, NULL, FALSE, "TypeError",
                       NoHandler)
       /\ UNCHANGED <<config, idsToCallbacks, uuidCount, boundUrl, invocations, accepted>>
  ELSE /\ TotalCalls < MaxCalls
       /\ LET callback == Lookup(id).response
          IN /\ invocations' = [invocations EXCEPT ![id] = CountCall(@)]
             /\ idsToCallbacks' = TableAfterInvoke(idsToCallbacks, id)
             /\ last' = Observe("invoke", NULL, id, NoHandler, NULL, FALSE, "", callback)
       /\ UNCHANGED <<config, uuidCount, boundUrl, accepted>>

\* the base URL configure compares the stored one with
NewUrl(baseUrl) == baseUrl \o (IF EndsWithSlash(baseUrl) THEN <<>> ELSE <<"/">>)

\* the base URL configure stores
StoredUrl(baseUrl) == baseUrl

\* configure refuses to overwrite the stored base URL
WouldOverwrite(baseUrl) ==
  Truthy(config.baseUrl) /\ config.baseUrl # NewUrl(baseUrl)

configure(baseUrl) ==
  /\ IF Truthy(baseUrl)
     THEN IF WouldOverwrite(baseUrl)
          THEN /\ last' = Observe("configure", baseUrl, <<>>, NoHandler, NULL, FALSE,
                                  "ServiceResponse baseUrl would be overwritten",
                                  NoHandler)
               /\ UNCHANGED <<config, accepted>>
          ELSE /\ config' = [baseUrl |-> StoredUrl(baseUrl)]
               /\ accepted' = baseUrl
               /\ last' = Observe("configure", baseUrl, <<>>, NoHandler, NULL, FALSE, "",
                               NoHandler)
     ELSE /\ last' = Observe("configure", baseUrl, <<>>, NoHandler, NULL, FALSE, "",
                               NoHandler)
          /\ UNCHANGED <<config, accepted>>
  /\ UNCHANGED <<idsToCallbacks, uuidCount, boundUrl, invocations>>

-----------------------------------------------------------------------------
(* record.ts *)

\* a field that was never assigned (undefined); dates and ids are >= 1
Unset == 0

\* a Record constructed without id, createdAt and updatedAt
RecordFresh == [id |-> Unset, createdAt |-> Unset, updatedAt |-> Unset]

NoSave == [outcome |-> "none", errors |-> NULL, stmts |-> <<>>,
           before |-> RecordFresh, at |-> 0]

\* what validate() of a subclass can return: null, an empty list, a list of errors
ValidateResults == {NULL, <<>>, <<"error">>}

\* if (errors): null is falsy, every array (the empty one too) is truthy
HasErrorsNonEmpty(errors) == errors # NULL /\ errors # <<>>

HasErrors(errors) == errors # NULL

\* db.client.config.client
Dialects == {"pg", "sqlite3"}

\* const newRecord = !this.createdAt
NewRecordAlways(r) == TRUE

NewRecord(r) == r.createdAt = Unset

\* this.createdAt after the stamping of save
StampCreatedAtAlways(r, now) == now

StampCreatedAt(r, now) == IF NewRecord(r) THEN now ELSE r.createdAt

\* the record after save has stamped it, before the statement runs
Stamped(r, now) ==
  [id |-> r.id, createdAt |-> StampCreatedAt(r, now), updatedAt |-> now]

\* transaction(table).insert(this) [.returning('id')]
InsertStmt(r, dialect) ==
  [kind |-> "insert", whereId |-> Unset, row |-> r, returning |-> dialect = "pg"]

\* transaction(table).where({ id: this.id }).update(this)
UpdateStmt(r) ==
  [kind |-> "update", whereId |-> r.id, row |-> r, returning |-> FALSE]

\* the row the store keeps for a record
Row(r) == [createdAt |-> r.createdAt, updatedAt |-> r.updatedAt]

\* the record after a save call that threw on validation: the throw comes
\* before the stamping of updatedAt
RecordAfterInvalidStamped(r, now) == Stamped(r, now)

RecordAfterInvalid(r, now) == r

\* Record.save(transaction), with the result of validate(), the database
\* client and whether the store executes the statement or rejects it
save(errors, dialect, storeOk) ==
  IF HasErrors(errors)
  THEN /\ lastSave' = [outcome |-> "invalid", errors |-> errors, stmts |-> <<>>,
                       before |-> rec, at |-> clock]
       /\ rec' = RecordAfterInvalid(rec, clock)
       /\ UNCHANGED <<rows, everInserted>>
  ELSE LET stamped == Stamped(rec, clock)
       IN IF NewRecord(rec)
          THEN IF storeOk
               THEN LET newId == Cardinality(DOMAIN rows) + 1
                    IN /\ rec' = [stamped EXCEPT !.id = newId]
                       /\ rows' = MapSet(rows, newId, Row(stamped))
                       /\ everInserted' = TRUE
                       /\ lastSave' = [outcome |-> "ok", errors |-> errors,
                                       stmts |-> <<InsertStmt(stamped, dialect)>>,
                                       before |-> rec, at |-> clock]
               ELSE /\ rec' = stamped
                    /\ lastSave' = [outcome |-> "storeError", errors |-> errors,
                                    stmts |-> <<InsertStmt(stamped, dialect)>>,
                                    before |-> rec, at |-> clock]
                    /\ UNCHANGED <<rows, everInserted>>
          ELSE /\ rec' = stamped
               /\ lastSave' = [outcome |-> IF storeOk THEN "ok" ELSE "storeError",
                               errors |-> errors,
                               stmts |-> <<UpdateStmt(stamped)>>,
                               before |-> rec, at |-> clock]
               /\ rows' = IF storeOk /\ stamped.id \in DOMAIN rows
                          THEN MapSet(rows, stamped.id, Row(stamped))
                          ELSE rows
               /\ UNCHANGED everInserted

-----------------------------------------------------------------------------
(* The state of the EOSS / OGC adapters before any call *)

NoParseCall == [collections |-> <<>>, names |-> <<>>, param |-> <<>>,
                done |-> FALSE, error |-> "", missing |-> <<>>, info |-> <<>>]

\* no JSON body written
NoBody == [hasMessage |-> FALSE, message |-> "", errors |-> NULL]

NoErrCall == [path |-> <<>>, err |-> [status |-> 0, errors |-> NULL,
                                       isRequestValidationError |-> FALSE,
                                       message |-> ""],
              done |-> FALSE, resStatus |-> 0, resBody |-> NoBody,
              writes |-> 0, nexts |-> 0]

\* query.rangesubset and query.bbox when the query has no such key
NoRangeSubset == <<NULL>>

NoBBox == <<>>

\* new DataOperation(null, encrypter, decrypter) before any field is set
NewDataOperation == [sources |-> <<>>, requireSynchronous |-> FALSE,
                     outputFormat |-> NULL, boundingRectangle |-> NoBBox,
                     granuleIds |-> <<>>]

NoGranuleCall == [collections |-> <<>>, supported |-> <<>>,
                  query |-> [rangesubset |-> NoRangeSubset, format |-> NULL,
                             bbox |-> NoBBox],
                  url |-> <<>>, done |-> FALSE, error |-> "",
                  frontend |-> "", operationSet |-> FALSE,
                  operation |-> NewDataOperation, nexts |-> 0]

AdaptersIdle ==
  /\ parseCall = NoParseCall
  /\ errCall = NoErrCall
  /\ granuleCall = NoGranuleCall
  /\ clientRes = <<>>

-----------------------------------------------------------------------------
(* The registry as a state machine *)

Init ==
  /\ config = [baseUrl |-> NULL]
  /\ idsToCallbacks = <<>>
  /\ uuidCount = 0
  /\ boundUrl = <<>>
  /\ invocations = <<>>
  /\ accepted = NULL
  /\ last = NoOp
  /\ rec = RecordFresh
  /\ clock = 1
  /\ rows = <<>>
  /\ everInserted = FALSE
  /\ lastSave = NoSave
  /\ AdaptersIdle

Configure == \E b \in ConfigInputs : configure(b) /\ UNCHANGED <<recVars, extVars>>
Bind == \E h \in Handlers : bindResponseUrl(h) /\ UNCHANGED <<recVars, extVars>>
IsBound == \E u \in UrlInputs : isUrlBound(u) /\ UNCHANGED <<recVars, extVars>>
Invoke == \E i \in IdInputs : responseHandler(i) /\ UNCHANGED <<recVars, extVars>>
Unbind == \E u \in UrlInputs : unbindResponseUrl(u) /\ UNCHANGED <<recVars, extVars>>

Next == Configure \/ Bind \/ IsBound \/ Invoke \/ Unbind

Spec == Init /\ [][Next]_vars

-----------------------------------------------------------------------------
(* One Record instance and its store as a state machine *)

\* a record as loaded from a row of the store
RecordLoaded(c, u) == [id |-> 1, createdAt |-> c, updatedAt |-> u]

RegistryIdle ==
  /\ config = [baseUrl |-> NULL]
  /\ idsToCallbacks = <<>>
  /\ uuidCount = 0
  /\ boundUrl = <<>>
  /\ invocations = <<>>
  /\ accepted = NULL
  /\ last = NoOp

RecordInit ==
  /\ RegistryIdle
  /\ AdaptersIdle
  /\ clock \in 1..2
  /\ everInserted = FALSE
  /\ lastSave = NoSave
  /\ \/ rec = RecordFresh /\ rows = <<>>
     \/ \E c \in 1..clock : \E u \in c..clock :
          /\ rec = RecordLoaded(c, u)
          /\ rows = MapSet(<<>>, 1, Row(rec))

Save ==
  /\ \E errors \in ValidateResults : \E dialect \in Dialects :
       \E storeOk \in BOOLEAN : save(errors, dialect, storeOk)
  /\ UNCHANGED <<clock, config, idsToCallbacks, uuidCount, boundUrl,
                 invocations, accepted, last, extVars>>

\* time passes
Tick ==
  /\ clock < MaxClock
  /\ clock' = clock + 1
  /\ UNCHANGED <<rec, rows, everInserted, lastSave, config, idsToCallbacks,
                 uuidCount, boundUrl, invocations, accepted, last, extVars>>

RecordNext == Save \/ Tick

RecordSpec == RecordInit /\ [][RecordNext]_vars

-----------------------------------------------------------------------------
(* Helpers of the properties *)

\* the text after the last "/" of a string (the whole string if it has none)
LastSegment(s) ==
  LET slashes == {i \in 1..Len(s) : s[i] = "/"}
      from == IF slashes = {} THEN 0
              ELSE CHOOSE i \in slashes : \A j \in slashes : j <= i
  IN SubSeq(s, from + 1, Len(s))

\* a string without its trailing slash, if it has one
StripSlash(s) == IF EndsWithSlash(s) THEN SubSeq(s, 1, Len(s) - 1) ELSE s

NotFound == "Could not find response callback for UUID"

Succeeded(o) == o.error = ""

\* the uuids that were bound at some time
EverBound == DOMAIN boundUrl

-----------------------------------------------------------------------------
(* Properties of the registry *)

\* C1 (as stated): right after a successful bindResponseUrl, isUrlBound on
\* the returned URL is true; right after unbindResponseUrl(url), isUrlBound
\* on that URL is false.
C1_BindThenBoundUnbindThenNot ==
  /\ (last.op = "bind" /\ Succeeded(last)) => isUrlBoundValue(last.ret)
  /\ (last.op = "unbind" /\ last.url # NULL) => ~isUrlBoundValue(last.url)

\* C2: responseHandler called with a uuid that was never bound, or that was
\* bound and is no longer in the table, fails with the not-found error,
\* calls no callback and counts no invocation.
C2_InvokeUnboundFails ==
  [][(last'.op = "invoke"
       /\ (last'.id \notin EverBound \/ last'.id \notin DOMAIN idsToCallbacks))
     => (last'.error = NotFound /\ last'.called = NoHandler
          /\ invocations' = invocations)]_vars

\* C2 witness: a uuid that was bound, invoked and then removed is invoked
\* again and the call failed with not-found.
C2_Witness ==
  /\ last.op = "invoke" /\ last.error = NotFound
  /\ last.id \in EverBound /\ last.id \notin DOMAIN idsToCallbacks
  /\ invocations[last.id] >= 1

\* C3 (as stated): the callback stored for a uuid is called at most once.
C3_InvokedAtMostOnce == \A id \in DOMAIN invocations : invocations[id] <= 1

\* C3 (amended): each successful responseHandler call calls the callback
\* bound to its uuid exactly once, any number of such calls can succeed
\* while the binding is in the table, and once the binding has been removed
\* the uuid is never in the table again and its callback is never called
\* again.
C3_CalledOncePerInvokeUntilRemoved ==
  [][/\ \A id \in DOMAIN invocations :
          /\ invocations'[id] \in {invocations[id], invocations[id] + 1}
          /\ invocations'[id] = invocations[id] + 1
               => /\ last'.op = "invoke" /\ last'.id = id
                  /\ id \in DOMAIN idsToCallbacks
                  /\ last'.called = idsToCallbacks[id].response
          /\ id \notin DOMAIN idsToCallbacks
               => /\ id \notin DOMAIN idsToCallbacks'
                  /\ invocations'[id] = invocations[id]
     /\ (last'.op = "invoke" /\ Succeeded(last'))
          => invocations'[last'.id] = invocations[last'.id] + 1]_vars

\* C3 witness: a callback was called twice through the same uuid, the
\* binding was then removed, and a later responseHandler call failed.
C3_Witness ==
  /\ last.op = "invoke" /\ last.error = NotFound
  /\ last.id \in DOMAIN invocations /\ invocations[last.id] = 2
  /\ last.id \notin DOMAIN idsToCallbacks

\* C4: responseHandler and isUrlBound leave the binding table unchanged (so
\* isUrlBound answers the same on every URL before and after them), and a
\* binding leaves the table only in an unbindResponseUrl step.
C4_InvokeAndIsBoundKeepTable ==
  [][/\ last'.op \in {"invoke", "isBound"}
          => /\ idsToCallbacks' = idsToCallbacks
             /\ \A u \in UrlInputs \ {NULL} :
                  IsBoundIn(idsToCallbacks', u) = IsBoundIn(idsToCallbacks, u)
     /\ \A id \in DOMAIN idsToCallbacks :
          id \notin DOMAIN idsToCallbacks' => last'.op = "unbind"]_vars

\* C4 witness: a successful responseHandler call after which its uuid is
\* still in the table and isUrlBound on the URL bound to it is true.
C4_Witness ==
  /\ last.op = "invoke" /\ Succeeded(last) /\ last.called # NoHandler
  /\ last.id \in DOMAIN idsToCallbacks
  /\ isUrlBoundValue(boundUrl[last.id])

\* C5: unbindResponseUrl(url) raises no error; for a non-empty url it removes
\* the binding of the url's last path segment if there is one and changes no
\* other binding; for null or "" it changes nothing; and doing it again
\* changes nothing more.
C5_UnbindIdempotentLocal ==
  [][last'.op = "unbind" =>
       LET url == last'.url
           token == LastSegment(url)
       IN /\ Succeeded(last')
          /\ Truthy(url) =>
               /\ DOMAIN idsToCallbacks' = (DOMAIN idsToCallbacks) \ {token}
               /\ \A id \in DOMAIN idsToCallbacks' :
                    idsToCallbacks'[id] = idsToCallbacks[id]
          /\ (~Truthy(url) \/ token \notin DOMAIN idsToCallbacks)
               => idsToCallbacks' = idsToCallbacks
          /\ UnbindTable(idsToCallbacks', url) = idsToCallbacks']_vars

\* C5 witness: unbindResponseUrl removed the binding of its url's last
\* segment while another binding stayed in the table.
C5_Witness ==
  /\ last.op = "unbind" /\ Truthy(last.url)
  /\ LastSegment(last.url) \in EverBound
  /\ LastSegment(last.url) \notin DOMAIN idsToCallbacks
  /\ DOMAIN idsToCallbacks # {}

\* C6: bindResponseUrl called while no configure call with a non-empty base
\* URL has succeeded fails with an error, generates no uuid and leaves the
\* binding table unchanged.
C6_BindBeforeConfigureFails ==
  [][(last'.op = "bind" /\ accepted = NULL)
     => /\ ~Succeeded(last')
        /\ last'.ret = NULL
        /\ uuidCount' = uuidCount
        /\ idsToCallbacks' = idsToCallbacks]_vars

\* C6 witness: a bindResponseUrl call failed before any configure succeeded.
C6_Witness == last.op = "bind" /\ ~Succeeded(last) /\ accepted = NULL

\* C7 (as stated): the URL bindResponseUrl returns is the accepted base URL
\* (without its trailing slash, if any), one "/" and the uuid, so the uuid
\* is the URL's last path segment.
C7_UrlIsBaseSlashToken ==
  (last.op = "bind" /\ Succeeded(last))
    => /\ last.ret = StripSlash(accepted) \o <<"/">> \o last.id
       /\ LastSegment(last.ret) = last.id

\* C8 (as stated): once a configure call has succeeded, every later
\* configure call with a different non-empty base URL fails with an error
\* and leaves the stored base URL unchanged.
C8_ReconfigureDifferentFails ==
  [][(last'.op = "configure" /\ accepted # NULL
        /\ Truthy(last'.url) /\ last'.url # accepted)
     => (~Succeeded(last') /\ config' = config)]_vars

-----------------------------------------------------------------------------
(* Properties of Record.save *)

\* the statements of the last save call, by kind
Inserts(o) == {i \in 1..Len(o.stmts) : o.stmts[i].kind = "insert"}
Updates(o) == {i \in 1..Len(o.stmts) : o.stmts[i].kind = "update"}

IsSet(x) == x # Unset

\* C9: a save that passes validation runs exactly one statement.  For a
\* record with neither id nor createdAt it is an insert, and when that
\* insert succeeds id, createdAt and updatedAt are set and the row exists;
\* for a record that has an id and a createdAt (as after that first save)
\* it is an update of the row with that id, and the id is kept; once the
\* instance has been inserted it keeps its id and createdAt.
C9_InsertThenUpdate ==
  /\ lastSave.outcome \in {"ok", "storeError"} =>
       /\ Len(lastSave.stmts) = 1
       /\ Cardinality(Inserts(lastSave)) + Cardinality(Updates(lastSave)) = 1
       /\ (~IsSet(lastSave.before.id) /\ ~IsSet(lastSave.before.createdAt))
            => /\ Inserts(lastSave) = {1} /\ Updates(lastSave) = {}
               /\ lastSave.outcome = "ok"
                    => /\ IsSet(rec.id) /\ rec.id \in DOMAIN rows
                       /\ IsSet(rec.createdAt) /\ IsSet(rec.updatedAt)
       /\ (IsSet(lastSave.before.id) /\ IsSet(lastSave.before.createdAt))
            => /\ Updates(lastSave) = {1} /\ Inserts(lastSave) = {}
               /\ lastSave.stmts[1].whereId = lastSave.before.id
               /\ rec.id = lastSave.before.id
  /\ everInserted => (IsSet(rec.id) /\ IsSet(rec.createdAt))

\* C9 witness: the instance was inserted by an earlier save and the last
\* save succeeded as an update of the row with its id.
C9_Witness ==
  /\ everInserted /\ lastSave.outcome = "ok"
  /\ Updates(lastSave) = {1} /\ lastSave.stmts[1].whereId = rec.id
  /\ IsSet(rec.id)

\* C10: over the save calls on one instance createdAt, once set, never
\* changes; updatedAt never decreases; and updatedAt is never earlier than
\* createdAt.
C10_Timestamps ==
  /\ [](IsSet(rec.createdAt) => rec.updatedAt >= rec.createdAt)
  /\ [][/\ IsSet(rec.createdAt) => rec'.createdAt = rec.createdAt
        /\ rec'.updatedAt >= rec.updatedAt]_vars

\* C10 witness: a save at a later time advanced updatedAt and kept the
\* createdAt an earlier save had set.
C10_Witness ==
  /\ lastSave.outcome = "ok" /\ IsSet(lastSave.before.createdAt)
  /\ rec.createdAt = lastSave.before.createdAt
  /\ rec.updatedAt > lastSave.before.updatedAt
  /\ rec.updatedAt > rec.createdAt
  /\ everInserted

\* C11 (as stated): save treats the record as valid, and goes on to its
\* statement, when validate() returned null and when it returned an empty
\* list; it fails validation only for a list with at least one error.
C11_EmptyListIsValid ==
  lastSave.outcome = "invalid" => lastSave.errors \notin {NULL, <<>>}

\* C11 (amended): save treats the record as valid exactly when validate()
\* returned null; for every list, the empty one included, it fails
\* validation and issues no statement.
C11_OnlyNullIsValid ==
  lastSave.outcome # "none" =>
    /\ (lastSave.outcome = "invalid") = (lastSave.errors # NULL)
    /\ lastSave.errors = NULL => Len(lastSave.stmts) = 1
    /\ lastSave.errors # NULL => lastSave.stmts = <<>>

\* C11 witness: validate() returned an empty list and save failed validation.
C11_Witness == lastSave.errors = <<>> /\ lastSave.outcome = "invalid"

\* C12: a save call whose validate() reported errors issues no statement,
\* leaves the store as it was and leaves id, createdAt and updatedAt of the
\* record as they were before the call.
C12_InvalidSaveTouchesNothing ==
  [][(lastSave'.errors # NULL /\ lastSave'.errors # <<>>)
     => /\ lastSave'.outcome = "invalid"
        /\ lastSave'.stmts = <<>>
        /\ rec' = rec /\ rows' = rows
        /\ lastSave'.before = rec']_vars

\* C12 witness: a save with validation errors was made at a time later than
\* the record's updatedAt, on a record that has an id, and changed nothing.
C12_Witness ==
  /\ lastSave.outcome = "invalid" /\ lastSave.errors = <<"error">>
  /\ IsSet(rec.id) /\ rec = lastSave.before
  /\ lastSave.at > rec.updatedAt

\* C15 (as stated): a save of a record whose id is still unset goes through
\* the insert path, also after an insert that failed; no save takes the
\* update path with an unset id.
C15_UnsetIdMeansInsert ==
  (lastSave.outcome \in {"ok", "storeError"} /\ ~IsSet(lastSave.before.id))
    => (Inserts(lastSave) = {1} /\ Updates(lastSave) = {})

-----------------------------------------------------------------------------
(* Further properties of the registry *)

\* C16: the exported functions run to completion one at a time, so the
\* calls of concurrent callers interleave as whole steps, in any order.  In
\* every such interleaving a responseHandler call either fails with
\* not-found, calling nothing, or calls the callback stored under exactly
\* its uuid, and fails in no other way; the callback stored under a uuid is
\* the one its bind was given, because a bind stores its callback under a
\* uuid never used before and no step changes or replaces an entry of
\* another uuid.
C16_InterleavedCallsKeepBindings ==
  [][/\ last'.op = "invoke"
          => \/ /\ last'.error = NotFound /\ last'.called = NoHandler
                /\ last'.id \notin DOMAIN idsToCallbacks
             \/ /\ Succeeded(last') /\ last'.id \in DOMAIN idsToCallbacks
                /\ last'.called = idsToCallbacks[last'.id].response
     /\ (last'.op = "bind" /\ Succeeded(last'))
          => /\ last'.id \notin EverBound
             /\ last'.id \in DOMAIN idsToCallbacks'
             /\ idsToCallbacks'[last'.id].response = last'.handler
             /\ \A k \in DOMAIN idsToCallbacks : k \in DOMAIN idsToCallbacks'
     /\ \A k \in (DOMAIN idsToCallbacks) \cap (DOMAIN idsToCallbacks') :
          idsToCallbacks'[k] = idsToCallbacks[k]
     /\ \A k \in (DOMAIN idsToCallbacks') \ (DOMAIN idsToCallbacks) :
          last'.op = "bind" /\ k = last'.id]_vars

\* C16 witness: two uuids are bound to different callbacks, both were
\* invoked, and the last call called the callback of its own uuid.
C16_Witness ==
  /\ last.op = "invoke" /\ Succeeded(last)
  /\ last.id \in DOMAIN idsToCallbacks
  /\ last.called = idsToCallbacks[last.id].response
  /\ \E k \in DOMAIN idsToCallbacks :
       /\ k # last.id /\ idsToCallbacks[k].response # last.called
       /\ invocations[k] >= 1

\* C17 (as stated): after a configure call has succeeded, a configure call
\* with the identical base URL succeeds and leaves the stored base URL
\* unchanged; a configure call with an empty or absent base URL changes
\* nothing and raises no error.
C17_ConfigureIdempotent ==
  [][last'.op = "configure"
     => /\ (accepted # NULL /\ last'.url = accepted)
             => (Succeeded(last') /\ config' = config)
        /\ ~Truthy(last'.url) => (Succeeded(last') /\ config' = config)]_vars

-----------------------------------------------------------------------------
(* parseVariables (OGC coverages: the collectionId parameter) *)

RecordIdle ==
  /\ rec = RecordFresh
  /\ clock = 1
  /\ rows = <<>>
  /\ everInserted = FALSE
  /\ lastSave = NoSave

\* String.prototype.split(sep) for a one-character separator
RECURSIVE SplitOnFrom(_, _, _, _)
SplitOnFrom(s, sep, i, cur) ==
  IF i > Len(s) THEN <<cur>>
  ELSE IF s[i] = sep THEN <<cur>> \o SplitOnFrom(s, sep, i + 1, <<>>)
  ELSE SplitOnFrom(s, sep, i + 1, Append(cur, s[i]))

SplitOn(s, sep) == SplitOnFrom(s, sep, 1, <<>>)

\* Array.prototype.join(sep) of a list of strings
RECURSIVE JoinFrom(_, _, _)
JoinFrom(list, sep, i) ==
  IF i > Len(list) THEN <<>>
  ELSE IF i = Len(list) THEN list[i]
  ELSE list[i] \o <<sep>> \o JoinFrom(list, sep, i + 1)

Join(list, sep) == JoinFrom(list, sep, 1)

\* a UMM-Var variable: v.umm.Name and the identity of the object
Variable(name, id) == [name |-> <<name>>, id |-> id]

\* the variables lists a CMR collection can have
VariableLists ==
  { <<>>,
    <<Variable("a", "Va1")>>,
    <<Variable("b", "Vb1")>>,
    <<Variable("a", "Va1"), Variable("b", "Vb1")>>,
    <<Variable("b", "Vb1"), Variable("a", "Va1")>>,
    <<Variable("a", "Va1"), Variable("a", "Va2")>> }

\* eosdisCollections: up to MaxCollections collections; the i-th has id i
CollectionLists ==
  UNION { { [i \in 1..n |-> [id |-> i, variables |-> vl[i]]] :
              vl \in [1..n -> VariableLists] } : n \in 0..MaxCollections }

\* the names a collectionId parameter is made of ("" included)
Names == { <<"a">>, <<"b">>, <<"c">>, <<"all">>, <<>> }

NameLists == UNION { [1..n -> Names] : n \in 1..MaxNames }

\* collection.variables.find((v) => v.umm.Name === variableId):
\* <<>> models undefined, <<v>> the first variable of that name
FindVariable(variables, variableId) ==
  LET hits == {j \in 1..Len(variables) : variables[j].name = variableId}
  IN IF hits = {} THEN <<>>
     ELSE <<variables[CHOOSE j \in hits : \A k \in hits : j <= k]>>

\* the inner loop: the variables pushed for one collection
RECURSIVE MatchingVariables(_, _, _)
MatchingVariables(collection, variableIds, i) ==
  IF i > Len(variableIds) THEN <<>>
  ELSE FindVariable(collection.variables, variableIds[i])
         \o MatchingVariables(collection, variableIds, i + 1)

\* missingVariables after the loops: the ids no collection has
MissingVariablesInSome(eosdisCollections, variableIds) ==
  SelectSeq(variableIds,
            LAMBDA v : \E c \in 1..Len(eosdisCollections) :
                         FindVariable(eosdisCollections[c].variables, v) = <<>>)

MissingVariables(eosdisCollections, variableIds) ==
  SelectSeq(variableIds,
            LAMBDA v : \A c \in 1..Len(eosdisCollections) :
                         FindVariable(eosdisCollections[c].variables, v) = <<>>)

RequestValidationError == "RequestValidationError"

\* parseVariables(eosdisCollections, collectionIdParam): the value returned
\* (info) or the error thrown
parseVariables(eosdisCollections, collectionIdParam) ==
  LET variableIds == SplitOn(collectionIdParam, ",")
      n == Len(eosdisCollections)
  IN IF \E i \in 1..Len(variableIds) : variableIds[i] = <<"all">>
     THEN IF Len(variableIds) # 1
          THEN [error |-> RequestValidationError, missing |-> <<>>, info |-> <<>>]
          ELSE [error |-> "", missing |-> <<>>,
                info |-> [c \in 1..n |->
                            [collectionId |-> eosdisCollections[c].id,
                             hasVariables |-> FALSE, variables |-> <<>>]]]
     ELSE LET missingVariables == MissingVariables(eosdisCollections, variableIds)
              variableInfo ==
                [c \in 1..n |->
                   [collectionId |-> eosdisCollections[c].id,
                    hasVariables |-> TRUE,
                    variables |-> MatchingVariables(eosdisCollections[c],
                                                    variableIds, 1)]]
          IN IF Len(missingVariables) > 0
             THEN [error |-> RequestValidationError,
                   missing |-> missingVariables, info |-> <<>>]
             ELSE [error |-> "", missing |-> <<>>, info |-> variableInfo]

ParseInit ==
  /\ RegistryIdle
  /\ RecordIdle
  /\ errCall = NoErrCall
  /\ granuleCall = NoGranuleCall
  /\ clientRes = <<>>
  /\ \E cols \in CollectionLists : \E names \in NameLists :
       parseCall = [collections |-> cols, names |-> names,
                    param |-> Join(names, ","), done |-> FALSE,
                    error |-> "", missing |-> <<>>, info |-> <<>>]

ParseVariables ==
  /\ ~parseCall.done
  /\ LET r == parseVariables(parseCall.collections, parseCall.param)
     IN parseCall' = [parseCall EXCEPT !.done = TRUE, !.error = r.error,
                                       !.missing = r.missing, !.info = r.info]
  /\ UNCHANGED <<regVars, recVars, errCall, granuleCall, clientRes>>

ParseNext == ParseVariables

ParseSpec == ParseInit /\ [][ParseNext]_vars

\* the collection has a variable of that name
Contains(collection, name) ==
  \E j \in 1..Len(collection.variables) : collection.variables[j].name = name

\* C18: parseVariables returns one entry per collection, in input order;
\* for 'all' alone the entries have no variables list, otherwise the i-th
\* entry lists variables of the i-th collection whose names are exactly the
\* requested names that collection contains, in request order.  It throws
\* RequestValidationError exactly when 'all' comes with other names or some
\* requested name is in none of the collections.
C18_ParseVariables ==
  parseCall.done =>
    LET cols == parseCall.collections
        names == parseCall.names
        hasAll == \E i \in 1..Len(names) : names[i] = <<"all">>
        inSome(name) == \E c \in 1..Len(cols) : Contains(cols[c], name)
        shouldFail == \/ hasAll /\ Len(names) > 1
                      \/ ~hasAll /\ \E i \in 1..Len(names) : ~inSome(names[i])
    IN /\ (parseCall.error = RequestValidationError) = shouldFail
       /\ parseCall.error \in {"", RequestValidationError}
       /\ parseCall.error = "" =>
            /\ Len(parseCall.info) = Len(cols)
            /\ \A c \in 1..Len(cols) :
                 LET entry == parseCall.info[c]
                 IN /\ entry.collectionId = cols[c].id
                    /\ hasAll => ~entry.hasVariables
                    /\ ~hasAll =>
                         /\ entry.hasVariables
                         /\ [j \in 1..Len(entry.variables) |-> entry.variables[j].name]
                              = SelectSeq(names, LAMBDA x : Contains(cols[c], x))
                         /\ \A j \in 1..Len(entry.variables) :
                              \E k \in 1..Len(cols[c].variables) :
                                cols[c].variables[k] = entry.variables[j]

\* C18 witness: two collections and two requested names, each found in one
\* collection only, and parseVariables returned without error.
C18_Witness ==
  /\ parseCall.done /\ parseCall.error = ""
  /\ Len(parseCall.collections) = 2 /\ Len(parseCall.names) = 2
  /\ Len(parseCall.info[1].variables) = 1
  /\ Len(parseCall.info[2].variables) = 1
  /\ parseCall.info[1].variables # parseCall.info[2].variables

-----------------------------------------------------------------------------
(* The EOSS error middleware of addOpenApiRoutes *)

\* the status of res.status(400)
BadRequest == 400

\* req.path values
Paths == { <<"/", "eoss", "/", "c1">>,
           <<"/", "x", "/", "eoss", "/">>,
           <<"/", "eoss">>,
           <<"/", "wms">> }

\* the errors handed to the middleware: err.status (0: undefined),
\* err.errors (NULL: undefined), err instanceof RequestValidationError and
\* err.message
Errs == [status : {0, 400, 415},
         errors : {NULL, <<>>, <<"bad parameter">>},
         isRequestValidationError : BOOLEAN,
         message : {"m1", "m2"}]

\* req.path.indexOf('/eoss/') !== -1
OnEossPathAlways(path) == TRUE

OnEossPath(path) ==
  \E i \in 1..(Len(path) - 2) :
    path[i] = "/" /\ path[i + 1] = "eoss" /\ path[i + 2] = "/"

\* err.status && err.errors: 0 and undefined are falsy, every array is truthy
IsOpenApiError(err) == err.status # 0 /\ err.errors # NULL

\* the middleware (err, req, res, next) => ...: the response written and
\* the number of res.json and next(err) calls
errorMiddleware(err, path) ==
  IF ~OnEossPath(path)
  THEN [resStatus |-> 0, resBody |-> NoBody, writes |-> 0, nexts |-> 1]
  ELSE IF IsOpenApiError(err)
  THEN [resStatus |-> err.status,
        resBody |-> [hasMessage |-> TRUE, message |-> err.message,
                     errors |-> err.errors],
        writes |-> 1, nexts |-> 0]
  ELSE IF err.isRequestValidationError
  THEN [resStatus |-> BadRequest,
        resBody |-> [hasMessage |-> FALSE, message |-> "",
                     errors |-> <<err.message>>],
        writes |-> 1, nexts |-> 0]
  ELSE [resStatus |-> 0, resBody |-> NoBody, writes |-> 0, nexts |-> 1]

ErrInit ==
  /\ RegistryIdle
  /\ RecordIdle
  /\ parseCall = NoParseCall
  /\ granuleCall = NoGranuleCall
  /\ clientRes = <<>>
  /\ \E path \in Paths : \E err \in Errs :
       errCall = [NoErrCall EXCEPT !.path = path, !.err = err]

ErrorMiddleware ==
  /\ ~errCall.done
  /\ LET r == errorMiddleware(errCall.err, errCall.path)
     IN errCall' = [errCall EXCEPT !.done = TRUE, !.resStatus = r.resStatus,
                                   !.resBody = r.resBody, !.writes = r.writes,
                                   !.nexts = r.nexts]
  /\ UNCHANGED <<regVars, recVars, parseCall, granuleCall, clientRes>>

ErrNext == ErrorMiddleware

ErrSpec == ErrInit /\ [][ErrNext]_vars

\* the path has the text "/eoss/" in it
HasEossSegment(path) ==
  \E i \in 1..(Len(path) - 2) :
    SubSeq(path, i, i + 2) = <<"/", "eoss", "/">>

\* C19: the middleware either writes one response or forwards the error
\* once, never both.  On a path containing '/eoss/' an error with a status
\* and an errors list is answered with that status and that list, and any
\* other RequestValidationError with status 400 and the list of its
\* message; every other error, and every error on another path, is
\* forwarded with next(err) and nothing is written.
C19_ErrorHandledOneWay ==
  errCall.done =>
    LET err == errCall.err
        eoss == HasEossSegment(errCall.path)
        openApi == err.status \in {400, 415} /\ err.errors # NULL
    IN /\ errCall.writes + errCall.nexts = 1
       /\ (eoss /\ openApi)
            => /\ errCall.writes = 1
               /\ errCall.resStatus = err.status
               /\ errCall.resBody.errors = err.errors
       /\ (eoss /\ ~openApi /\ err.isRequestValidationError)
            => /\ errCall.writes = 1
               /\ errCall.resStatus = 400
               /\ errCall.resBody.errors = <<err.message>>
       /\ (~eoss \/ (~openApi /\ ~err.isRequestValidationError))
            => /\ errCall.nexts = 1 /\ errCall.writes = 0
               /\ errCall.resBody = NoBody

\* C19 witness: a RequestValidationError on an EOSS path was answered with
\* status 400 and its message.
C19_Witness ==
  /\ errCall.done /\ HasEossSegment(errCall.path)
  /\ errCall.err.isRequestValidationError /\ errCall.err.status = 0
  /\ errCall.resStatus = 400 /\ errCall.resBody.errors = <<errCall.err.message>>
  /\ errCall.nexts = 0

-----------------------------------------------------------------------------
(* The EOSS getGranule adapter of addOpenApiRoutes *)

NotFoundError == "NotFoundError"

\* the variables lists of the collections of an EOSS request
GranuleVariableLists ==
  { <<>>,
    <<Variable("a", "Va1")>>,
    <<Variable("a", "Va1"), Variable("b", "Vb1")>> }

\* req.collections: up to MaxCollections collections; the i-th has id i
GranuleCollectionLists ==
  UNION { { [i \in 1..n |-> [id |-> i, variables |-> vl[i]]] :
              vl \in [1..n -> GranuleVariableLists] } : n \in 0..MaxCollections }

\* query.rangesubset: undefined, or a list of up to MaxNames names
RangeSubsets ==
  {NoRangeSubset} \cup UNION { [1..n -> { <<"a">>, <<"b">>, <<"c">> }] : n \in 0..MaxNames }

\* the query of the request, keys in lower case
Queries == [rangesubset : RangeSubsets,
            format : {NULL, <<"image/png">>},
            bbox : {NoBBox, <<-180, -90, 180, 90>>}]

\* req.url: with and without a granule id
GranuleUrls == { <<"/", "c1", "/", "G1-P", "/", "G2-P">>, <<"/", "c1">> }

\* the path segments /G\d+-\w+/ matches
GranuleTokens == {"G1-P", "G2-P"}

\* req.collections.every(services.isCollectionSupported); supported[i] is
\* the answer of services.isCollectionSupported for the i-th collection
SomeSupported(collections, supported) ==
  \E i \in 1..Len(collections) : supported[i]

AllSupported(collections, supported) ==
  \A i \in 1..Len(collections) : supported[i]

\* req.url.match(GRANULE_URL_PATH_REGEX): the granule id of the first match
\* without its leading slash, <<>> when nothing matches
GranuleIds(url) ==
  LET hits == {i \in 1..(Len(url) - 1) :
                 url[i] = "/" /\ url[i + 1] \in GranuleTokens}
  IN IF hits = {} THEN <<>>
     ELSE <<url[(CHOOSE i \in hits : \A k \in hits : i <= k) + 1]>>

\* the rangesubset loop from its i-th name on: the variables pushed, or the
\* RequestValidationError of the first name the collection does not have
RECURSIVE RequestedVariables(_, _, _)
RequestedVariables(collection, variablesRequested, i) ==
  IF i > Len(variablesRequested) THEN [error |-> "", variables |-> <<>>]
  ELSE LET variable == FindVariable(collection.variables, variablesRequested[i])
       IN IF variable = <<>>
          THEN [error |-> RequestValidationError, variables |-> <<>>]
          ELSE LET rest == RequestedVariables(collection, variablesRequested, i + 1)
               IN [error |-> rest.error,
                   variables |-> IF rest.error = "" THEN variable \o rest.variables
                                 ELSE <<>>]

\* DataOperation.addSource(collectionId, variables): appends one source
addSource(operation, collectionId, variables) ==
  [operation EXCEPT !.sources = Append(@, [collection |-> collectionId,
                                           variables |-> variables])]

\* a throw of getGranule: req.operation stays unset and next is not called
Thrown(error) ==
  [error |-> error, operationSet |-> FALSE, operation |-> NewDataOperation,
   nexts |-> 0]

\* getGranule(req, res, next): the error thrown, or req.operation and the
\* number of next() calls
getGranule(collections, supported, query, url) ==
  IF ~AllSupported(collections, supported) THEN Thrown(NotFoundError)
  ELSE
    LET op1 == IF Truthy(query.format)
               THEN [NewDataOperation EXCEPT !.outputFormat = query.format]
               ELSE NewDataOperation
        op2 == IF query.bbox # NoBBox
               THEN [op1 EXCEPT !.boundingRectangle = query.bbox]
               ELSE op1
        op3 == IF GranuleIds(url) # <<>>
               THEN [op2 EXCEPT !.granuleIds = GranuleIds(url)]
               ELSE op2
    IN IF Len(collections) = 0 THEN Thrown("TypeError")
       ELSE
         LET collectionId == collections[1].id
             requested == IF query.rangesubset # NoRangeSubset
                          THEN RequestedVariables(collections[1],
                                                  query.rangesubset, 1)
                          ELSE [error |-> "", variables |-> <<>>]
         IN IF requested.error # "" THEN Thrown(requested.error)
            ELSE [error |-> "", operationSet |-> TRUE,
                  operation |->
                    [addSource(op3, collectionId, requested.variables)
                       EXCEPT !.requireSynchronous = TRUE],
                  nexts |-> 1]

GranuleInit ==
  /\ RegistryIdle
  /\ RecordIdle
  /\ parseCall = NoParseCall
  /\ errCall = NoErrCall
  /\ clientRes = <<>>
  /\ \E cols \in GranuleCollectionLists :
       \E supported \in [1..Len(cols) -> BOOLEAN] :
         \E query \in Queries : \E url \in GranuleUrls :
           granuleCall = [NoGranuleCall EXCEPT !.collections = cols,
                                               !.supported = supported,
                                               !.query = query, !.url = url]

GetGranule ==
  /\ ~granuleCall.done
  /\ LET r == getGranule(granuleCall.collections, granuleCall.supported,
                         granuleCall.query, granuleCall.url)
     IN granuleCall' = [granuleCall EXCEPT !.done = TRUE, !.frontend = "eoss",
                                           !.error = r.error,
                                           !.operationSet = r.operationSet,
                                           !.operation = r.operation,
                                           !.nexts = r.nexts]
  /\ UNCHANGED <<regVars, recVars, parseCall, errCall, clientRes>>

GranuleNext == GetGranule

GranuleSpec == GranuleInit /\ [][GranuleNext]_vars

\* some requested name is not a variable of the collection
SomeNameUnknown(collection, rangesubset) ==
  /\ rangesubset # NoRangeSubset
  /\ \E j \in 1..Len(rangesubset) : ~Contains(collection, rangesubset[j])

\* C13: getGranule either sets req.operation and calls next() exactly once,
\* the operation having exactly one source, for the first collection, and
\* requireSynchronous = true, or it throws, leaves req.operation unset and
\* does not call next().  It throws NotFoundError exactly when some
\* collection is unsupported, and RequestValidationError exactly when all
\* are supported and a rangesubset name is not a variable of the first
\* collection.
C13_OperationBuiltOrFailed ==
  granuleCall.done =>
    LET cols == granuleCall.collections
        unsupported == \E i \in 1..Len(cols) : ~granuleCall.supported[i]
        op == granuleCall.operation
    IN /\ granuleCall.error = ""
            => /\ granuleCall.operationSet /\ granuleCall.nexts = 1
               /\ Len(cols) >= 1
               /\ Len(op.sources) = 1
               /\ op.sources[1].collection = cols[1].id
               /\ op.requireSynchronous
       /\ granuleCall.error # ""
            => /\ ~granuleCall.operationSet /\ granuleCall.nexts = 0
       /\ granuleCall.error = NotFoundError <=> unsupported
       /\ granuleCall.error = RequestValidationError
            <=> /\ ~unsupported /\ Len(cols) >= 1
                /\ SomeNameUnknown(cols[1], granuleCall.query.rangesubset)

\* C13 witness: a request for two collections and one known variable was
\* handed on with one source.
C13_Witness ==
  /\ granuleCall.done /\ granuleCall.error = ""
  /\ Len(granuleCall.collections) = 2
  /\ granuleCall.query.rangesubset = << <<"a">> >>
  /\ granuleCall.nexts = 1
  /\ Len(granuleCall.operation.sources) = 1
  /\ Len(granuleCall.operation.sources[1].variables) = 1

-----------------------------------------------------------------------------
(* Dispatched operations: the backend's callback and the client's response *)

\* what a backend sends with its callback: an error parameter, a redirect
\* parameter or POST data
NoCallback == [error |-> NULL, redirect |-> NULL, body |-> NULL]

Callbacks ==
  { [NoCallback EXCEPT !.error = <<"Something bad happened">>],
    [NoCallback EXCEPT !.redirect = <<"http://example.com">>],
    [NoCallback EXCEPT !.body = <<"realistic mock data">>] }

\* the response of a client still waiting
NoResponse == [written |-> FALSE, status |-> 0, text |-> NULL,
               location |-> NULL, callback |-> NoCallback]

\* the response the bound handler writes for a callback
ClientResponseAlwaysOk(cb) ==
  [written |-> TRUE, status |-> 200, text |-> cb.body, location |-> NULL,
   callback |-> cb]

ClientResponse(cb) ==
  IF cb.error # NULL
  THEN [written |-> TRUE, status |-> 400, text |-> cb.error,
        location |-> NULL, callback |-> cb]
  ELSE IF cb.redirect # NULL
  THEN [written |-> TRUE, status |-> 302, text |-> NULL,
        location |-> cb.redirect, callback |-> cb]
  ELSE [written |-> TRUE, status |-> 200, text |-> cb.body,
        location |-> NULL, callback |-> cb]

\* the registry configured at start-up, no operation dispatched yet
CallbackInit ==
  /\ config = [baseUrl |-> <<"h", "/", "service", "/">>]
  /\ accepted = <<"h", "/", "service", "/">>
  /\ idsToCallbacks = <<>>
  /\ uuidCount = 0
  /\ boundUrl = <<>>
  /\ invocations = <<>>
  /\ last = NoOp
  /\ RecordIdle
  /\ AdaptersIdle

\* the asynchronous path: bind a completion handler, the client waits
Dispatch ==
  /\ \E h \in Handlers : bindResponseUrl(h)
  /\ clientRes' = MapSet(clientRes, Uuid(uuidCount + 1), NoResponse)
  /\ UNCHANGED <<recVars, parseCall, errCall, granuleCall>>

\* the backend requests the callback URL: responseHandler runs the bound
\* handler, which answers the waiting client
BackendCallback ==
  /\ \E id \in IdInputs : \E cb \in Callbacks :
       /\ responseHandler(id)
       /\ clientRes' = IF HandlerFound(id) /\ ~clientRes[id].written
                       THEN [clientRes EXCEPT ![id] = ClientResponse(cb)]
                       ELSE clientRes
  /\ UNCHANGED <<recVars, parseCall, errCall, granuleCall>>

\* the operation is over (answered, or timed out): its URL is unbound
Complete ==
  /\ \E id \in DOMAIN boundUrl : unbindResponseUrl(boundUrl[id])
  /\ UNCHANGED <<recVars, extVars>>

CallbackNext == Dispatch \/ BackendCallback \/ Complete

CallbackSpec == CallbackInit /\ [][CallbackNext]_vars

\* C14: the client of a dispatched operation is answered as soon as the
\* backend's callback has reached its handler, and the answer is fixed by
\* that callback: an error gives status 400 with the error message as the
\* body, a redirect gives status 302 with the redirect URL as the Location
\* header, data gives status 200 with the data as the body.
C14_CallbackDeterminesResponse ==
  \A id \in DOMAIN clientRes :
    LET res == clientRes[id]
        cb == res.callback
    IN /\ res.written <=> invocations[id] >= 1
       /\ res.written =>
            /\ cb \in Callbacks
            /\ cb.error # NULL => res.status = 400 /\ res.text = cb.error
            /\ cb.redirect # NULL
                 => res.status = 302 /\ res.location = cb.redirect
            /\ cb.body # NULL => res.status = 200 /\ res.text = cb.body

\* C14 witness: two operations were dispatched; one client got the
\* backend's redirect and the other the backend's error.
C14_Witness ==
  \E i, j \in DOMAIN clientRes :
    /\ clientRes[i].status = 302
    /\ clientRes[i].location = <<"http://example.com">>
    /\ clientRes[j].status = 400
    /\ clientRes[j].text = <<"Something bad happened">>

====
